---- MODULE Spec2Model ----
(***************************************************************************)
(* Training-loop orchestration of jobs/process/BaseSDTrainProcess.py (the  *)
(* diffusion / LoRA trainer) and jobs/process/TrainVAEProcess.py (the      *)
(* autoencoder trainer): the step loop with its periodic sample / save /   *)
(* log gates, checkpoint naming, retention pruning and resume.             *)
(*                                                                         *)
(* Optional values (Python None, an absent metadata key, an unsuffixed     *)
(* file name) are sets with at most one element: {} is None, {n} is n.     *)
(* An interval of 0 stands for every falsy interval (0 and None).          *)
(***************************************************************************)
EXTENDS Integers, Sequences, FiniteSets, TLC

\* ------------------------------------------------------------------ bounds
MaxSteps == 5
MaxInterval == 2
MaxKeep == 1
MaxRuns == 2
MaxBatches == 2
MaxEpochs == 1
MaxWarmup == 2
MaxWeight == 1
MaxCriticPerGen == 2

Max(a, b) == IF a >= b THEN a ELSE b
Min(a, b) == IF a <= b THEN a ELSE b

VARIABLES
    cfg,          \* the job's configuration, fixed for the life of the job directory
    dir,          \* the *.safetensors files of save_root
    clock,        \* the filesystem's time: the ctime / mtime the next write gets
    runs,         \* number of processes started on this job so far
    pc,           \* position of the running process inside run()
    step_num,     \* self.step_num
    start_step,   \* self.start_step (SD) / local start_step (VAE)
    step,         \* loop variable of `for step in range(...)` (SD)
    epoch,        \* loop variable of `for epoch in range(...)` (VAE)
    batch_i,      \* position of `for batch in self.data_loader` inside the epoch (VAE)
    max_steps,    \* self.max_steps as rewritten by TrainVAEProcess.run
    epochs,       \* self.epochs as rewritten by TrainVAEProcess.run
    events,       \* sample and save calls of this process, in call order
    fired,        \* the periodic families whose gate was true in the current iteration
    iters,        \* completed loop iterations of this process
    resumed,      \* the checkpoint this process loaded at start ({} if none)
    found,        \* the checkpoints matching the resume glob when this process started
    lastPrune,    \* what the last clean_up_saves call saw and what it left
    log_n,        \* len(log_losses[key]) (VAE)
    batch,        \* index of the batch the current iteration pulled ({} for None)
    phases,       \* the phases of run() this process has entered, in order (SD)
    root_exists,  \* os.path.exists(self.save_root)
    pure,         \* inputs and result of the loss functions (SpecPure)
    error,        \* the exception that ended run() ("" while none has)
    trained,      \* gradient steps the weights in memory have received
    ops,          \* the operations of the current loop iteration, in call order
    epoch_n,      \* len(epoch_losses[key]) (VAE)
    emitted,      \* the last end-of-epoch average given to the writer (VAE)
    multiplier,   \* self.network.multiplier ({} while there is no network)
    critic,       \* gradient and optimizer state of the critic in this generator step
    epoch_num,    \* self.epoch_num (VAE)
    critic_resumed \* the CRITIC_ checkpoint Critic.load_weights loaded ({} if none)

vars == <<cfg, dir, clock, runs, pc, step_num, start_step, step, epoch, batch_i,
          max_steps, epochs, events, fired, iters, resumed, found, lastPrune, log_n,
          batch, phases, root_exists, pure,
          error, trained, ops, epoch_n, emitted, multiplier, critic, epoch_num,
          critic_resumed>>

\* --------------------------------------------------------- checkpoint files
\* A file of save_root: its name is prefix + job name + optional _{step:09d} +
\* ".safetensors"; meta is training_info.step of its metadata; counter is the
\* value self.step_num had when save() wrote it ({} for a file this program
\* did not write); valid is FALSE for a file that cannot be parsed (partly
\* written, corrupt); trained is the number of gradient steps its weights have
\* received; epoch is training_info.epoch of its metadata; in_epoch is the
\* value the epoch loop variable had when it was written; multiplier is the
\* adapter multiplier in force while the weights were written.
File(prefix, suffix, ctime, meta, counter) ==
    [prefix |-> prefix, suffix |-> suffix, ctime |-> ctime, meta |-> meta,
     counter |-> counter, valid |-> TRUE, trained |-> 0, epoch |-> {},
     in_epoch |-> {}, multiplier |-> {}]

SameName(f, g) == f.prefix = g.prefix /\ f.suffix = g.suffix

\* a pruning glob that also matches the unsuffixed name
IntermediatePattern_Unsuffixed(f) == f.prefix = ""

\* glob "{job_name}_*.safetensors"
IntermediatePattern(f) == f.prefix = "" /\ f.suffix # {}

\* glob "{job_name}*.safetensors"
LatestPattern(f) == f.prefix = ""

Intermediates(d) == {f \in d : IntermediatePattern(f)}

\* max(files, key=os.path.getctime); every write gets a fresh time
Latest(files) == CHOOSE f \in files : \A g \in files : g.ctime <= f.ctime

\* files.sort(key=os.path.getctime)
RECURSIVE SortByCtime(_)
SortByCtime(files) ==
    IF files = {} THEN << >>
    ELSE LET f == CHOOSE x \in files : \A g \in files : x.ctime <= g.ctime
         IN  <<f>> \o SortByCtime(files \ {f})

\* Python's seq[:stop]
PySliceTo(s, stop) ==
    LET n == Len(s)
        e == IF stop < 0 THEN Max(n + stop, 0) ELSE Min(stop, n)
    IN  SubSeq(s, 1, e)

Range(s) == {s[i] : i \in 1..Len(s)}

\* the files clean_up_saves removes from directory d
Removed(d) ==
    LET files == {f \in d : IntermediatePattern(f)}
    IN  IF Cardinality(files) > cfg.max_step_saves_to_keep
        THEN Range(PySliceTo(SortByCtime(files), 0 - cfg.max_step_saves_to_keep))
        ELSE {}

clean_up_saves(d) == d \ Removed(d)

\* a save() that leaves the adapter at the multiplier it wrote with
save_multiplier_NoRestore ==
    IF multiplier # {}
    THEN [written |-> {1}, after |-> {1}]
    ELSE [written |-> {}, after |-> multiplier]

\* the adapter multiplier inside and after save(): prev_multiplier is kept,
\* the weights are written at 1.0, prev_multiplier is put back
save_multiplier ==
    IF multiplier # {}
    THEN LET prev_multiplier == multiplier
         IN  [written |-> {1}, after |-> prev_multiplier]
    ELSE [written |-> {}, after |-> multiplier]

\* BaseSDTrainProcess.get_training_info
get_training_info == [step |-> step_num + 1]

\* a save() that writes the weights as they were before the iteration's step
SavedFile_Stale(label) ==
    [File("", label, clock, {get_training_info.step}, {step_num})
        EXCEPT !.trained = trained - 1, !.multiplier = save_multiplier.written]

\* the file BaseSDTrainProcess.save(step) writes; label is {} for save()
SavedFile(label) ==
    [File("", label, clock, {get_training_info.step}, {step_num})
        EXCEPT !.trained = trained, !.multiplier = save_multiplier.written]

\* the directory after BaseSDTrainProcess.save(label)
save(label) ==
    clean_up_saves({f \in dir : ~SameName(f, SavedFile(label))} \cup {SavedFile(label)})

\* a resume that picks the oldest matching file (min for max)
get_latest_save_path_Oldest ==
    LET files == {f \in dir : LatestPattern(f)}
    IN  IF files # {}
        THEN {CHOOSE f \in files : \A g \in files : f.ctime <= g.ctime}
        ELSE {}

\* get_latest_save_path
get_latest_save_path ==
    LET files == {f \in dir : LatestPattern(f)}
    IN  IF files # {} THEN {Latest(files)} ELSE {}

\* a gate without the `self.step_num != self.start_step` guard
Gate_NoStartGuard(interval) ==
    /\ interval # 0
    /\ step_num % interval = 0

\* the periodic gate of one family inside `if self.step_num != self.start_step`
Gate(interval) ==
    /\ step_num # start_step
    /\ interval # 0
    /\ step_num % interval = 0

\* ------------------------------------------------------------ configuration
\* BaseSDTrainProcess: network is `network_config is not None`; steps is
\* train_config.steps; first_sample is has_first_sample_requested; dl_len is
\* len(self.data_loader), 0 for `self.data_loader is None`.
\* The configurations are explored along two families: the three intervals
\* with the retention count (every combination of the intervals at the largest
\* count, every count with the save interval alone), and every combination of
\* the warm-up sample flags, the data source and the multiplier the training
\* hook of the subclass leaves on the adapter (hook_multiplier, which only an
\* adapter carries).
Multipliers == {1, 2}

SDGateConfigs ==
    {c \in [trainer : {"sd"}, network : BOOLEAN, steps : 0..MaxSteps,
             sample_every : 0..MaxInterval, save_every : 0..MaxInterval,
             log_every : 0..MaxInterval, max_step_saves_to_keep : 0..MaxKeep,
             first_sample : {FALSE}, skip_first_sample : {FALSE},
             dl_len : {0}, epochs : {{}}, writer : {FALSE},
             sample_sources : {TRUE}, has_max_steps : {TRUE},
             hook_multiplier : {1}, use_critic : {FALSE},
             num_critic_per_gen : {1}] :
        \/ c.max_step_saves_to_keep = MaxKeep
        \/ c.sample_every = 0 /\ c.log_every = 0}

SDLoaderConfigs ==
    {c \in [trainer : {"sd"}, network : BOOLEAN, steps : 0..(MaxBatches + 1),
             sample_every : {0}, save_every : {1}, log_every : {0},
             max_step_saves_to_keep : {1},
             first_sample : BOOLEAN, skip_first_sample : BOOLEAN,
             dl_len : 0..MaxBatches, epochs : {{}}, writer : {FALSE},
             sample_sources : {TRUE}, has_max_steps : {TRUE},
             hook_multiplier : Multipliers, use_critic : {FALSE},
             num_critic_per_gen : {1}] :
        c.network \/ c.hook_multiplier = 1}

SDConfigs == SDGateConfigs \cup SDLoaderConfigs

\* TrainVAEProcess: steps is max_steps (has_max_steps FALSE: max_steps is
\* None); dl_len is len(self.data_loader); epochs is {} for None; writer is
\* `self.writer is not None`; sample_sources is `sample_sources is not None`;
\* a sample_every of 0 is None; num_critic_per_gen is the critic's. Three
\* families: budget, intervals, data source and writer for a complete
\* configuration (every combination without sampling, and the sample interval
\* with every budget and save interval of a step-bounded run); every
\* combination of the present / absent fields the constructor validates; and
\* the runs with the critic enabled.
\* The trainer reads no retention count: max_step_saves_to_keep is the count
\* the job's save section carries.
VAERunConfigs ==
    {c \in [trainer : {"vae"}, network : {FALSE}, steps : 0..MaxSteps,
             sample_every : 0..MaxInterval, save_every : 0..MaxInterval,
             log_every : 0..MaxInterval, max_step_saves_to_keep : {MaxKeep},
             first_sample : {FALSE}, skip_first_sample : {FALSE},
             dl_len : 1..MaxBatches,
             epochs : {{}} \cup {{e} : e \in 1..MaxEpochs},
             writer : BOOLEAN, sample_sources : {TRUE}, has_max_steps : {TRUE},
             hook_multiplier : {1}, use_critic : {FALSE},
             num_critic_per_gen : {1}] :
        \/ c.sample_every = 0
        \/ c.log_every = 0 /\ ~c.writer /\ c.epochs = {}}

VAEFieldConfigs ==
    {c \in [trainer : {"vae"}, network : {FALSE}, steps : {0, MaxBatches},
             sample_every : 0..MaxInterval, save_every : {1},
             log_every : {0}, max_step_saves_to_keep : {MaxKeep},
             first_sample : {FALSE}, skip_first_sample : {FALSE},
             dl_len : {1}, epochs : {{}} \cup {{e} : e \in 1..MaxEpochs},
             writer : {FALSE}, sample_sources : BOOLEAN, has_max_steps : BOOLEAN,
             hook_multiplier : {1}, use_critic : {FALSE},
             num_critic_per_gen : {1}] :
        c.has_max_steps = (c.steps # 0)}

VAECriticConfigs ==
    [trainer : {"vae"}, network : {FALSE}, steps : 0..(MaxBatches + 1),
     sample_every : {0}, save_every : 0..MaxInterval,
     log_every : {0}, max_step_saves_to_keep : {MaxKeep},
     first_sample : {FALSE}, skip_first_sample : {FALSE},
     dl_len : 1..MaxBatches, epochs : {{}},
     writer : {FALSE}, sample_sources : {TRUE}, has_max_steps : {TRUE},
     hook_multiplier : {1}, use_critic : {TRUE},
     num_critic_per_gen : 0..MaxCriticPerGen]

VAEConfigs == VAERunConfigs \cup VAEFieldConfigs \cup VAECriticConfigs

\* directories a job can start in: empty, or holding a final checkpoint written
\* by another tool (no training_info in its metadata), readable or corrupt
InitialDirs ==
    { {}, {File("", {}, 0, {}, {})},
      {[File("", {}, 0, {}, {}) EXCEPT !.valid = FALSE]} }

\* the critic before its first update of a generator step: .grad of its
\* parameters holds no gradient, no optimizer or scheduler step was made
CriticIdle == [grads |-> FALSE, applied |-> 0, opt_steps |-> 0, sched_steps |-> 0]

\* the fields as __init__ assigns them, before its validation has run
Constructed ==
    /\ pc = "new"
    /\ step_num = 0
    /\ start_step = 0
    /\ step = 0
    /\ epoch = 0
    /\ batch_i = 0
    /\ max_steps = cfg.steps
    /\ epochs = 0
    /\ events = << >>
    /\ fired = {}
    /\ iters = 0
    /\ resumed = {}
    /\ found = {}
    /\ log_n = 0
    /\ batch = {}
    /\ phases = << >>
    /\ error = ""
    /\ trained = 0
    /\ ops = << >>
    /\ epoch_n = 0
    /\ emitted = {}
    /\ multiplier = {}
    /\ critic = CriticIdle
    /\ epoch_num = 0
    /\ critic_resumed = {}

\* the runs over every combination of the three intervals start in an empty
\* directory (they reach a directory with checkpoints by running again); the
\* directories other tools wrote to are started in with the other families
Init ==
    /\ cfg \in SDConfigs \cup VAEConfigs
    /\ dir \in IF cfg \in SDLoaderConfigs \cup VAEFieldConfigs \cup VAECriticConfigs
                THEN InitialDirs
                ELSE {{}}
    /\ clock = 1
    /\ runs = 1
    /\ lastPrune = [before |-> {}, removed |-> {}, calls |-> 0, failed |-> FALSE]
    /\ root_exists = (dir # {})
    /\ pure = [fn |-> "none"]
    /\ Constructed

Event(kind, label) == [kind |-> kind, label |-> label]

\* an operation of the current iteration and the step counter it saw
Op(name) == [op |-> name, step |-> step_num]

\* ------------------------------------------------------------ construction
\* BaseSDTrainProcess.__init__: reads the configuration, validates nothing
SDConstruct ==
    /\ cfg.trainer = "sd"
    /\ pc = "new"
    /\ pc' = "start"
    /\ UNCHANGED <<cfg, dir, clock, runs, step_num, start_step, step, epoch, batch_i,
                   max_steps, epochs, events, fired, iters, resumed, found, lastPrune, log_n>>
    /\ UNCHANGED <<batch, phases, root_exists, pure, critic_resumed>>
    /\ UNCHANGED <<error, trained, ops, epoch_n, emitted, multiplier, critic, epoch_num>>

\* a constructor that does not check sample_every against sample_sources
ConfigValid_NoSampleCheck ==
    ~(cfg.epochs = {} /\ ~cfg.has_max_steps)

\* the two checks of TrainVAEProcess.__init__ that raise ValueError
ConfigValid ==
    /\ ~(cfg.sample_every # 0 /\ ~cfg.sample_sources)
    /\ ~(cfg.epochs = {} /\ ~cfg.has_max_steps)

\* TrainVAEProcess.__init__: the configuration checks, then makedirs(save_root)
VAEConstruct ==
    /\ cfg.trainer = "vae"
    /\ pc = "new"
    /\ IF ConfigValid
       THEN /\ pc' = "start"
            /\ root_exists' = TRUE
       ELSE /\ pc' = "config_error"
            /\ UNCHANGED root_exists
    /\ UNCHANGED <<cfg, dir, clock, runs, step_num, start_step, step, epoch, batch_i,
                   max_steps, epochs, events, fired, iters, resumed, found, lastPrune, log_n>>
    /\ UNCHANGED <<batch, phases, pure, critic_resumed>>
    /\ UNCHANGED <<error, trained, ops, epoch_n, emitted, multiplier, critic, epoch_num>>

\* ------------------------------------------------ BaseSDTrainProcess.run
\* self.sd.load_model() and the precision / attention flags
LoadModel ==
    /\ cfg.trainer = "sd"
    /\ pc = "start"
    /\ pc' = "params"
    /\ UNCHANGED <<cfg, dir, clock, runs, step_num, start_step, step, epoch, batch_i,
                   max_steps, epochs, events, fired, iters, resumed, found, lastPrune, log_n>>
    /\ phases' = phases \o <<"load">>
    /\ UNCHANGED <<batch, root_exists, pure, critic_resumed>>
    /\ UNCHANGED <<error, trained, ops, epoch_n, emitted, multiplier, critic, epoch_num>>

\* load_weights(path): only an adapter is loaded; the metadata step, if any,
\* becomes step_num and start_step
load_weights_step(f) == IF f.meta # {} THEN CHOOSE s \in f.meta : TRUE ELSE step_num

\* with an adapter, the latest file cannot be parsed: network.load_weights
\* raises and the exception ends run()
SDResumeFails ==
    /\ cfg.trainer = "sd"
    /\ pc = "params"
    /\ cfg.network
    /\ \E f \in get_latest_save_path : ~f.valid
    /\ pc' = "crashed"
    /\ error' = "ResumeError"
    /\ resumed' = get_latest_save_path
    /\ found' = {f \in dir : LatestPattern(f)}
    /\ multiplier' = {1}
    /\ phases' = phases \o <<"params">>
    /\ UNCHANGED <<cfg, dir, clock, runs, step_num, start_step, step, epoch, batch_i,
                   max_steps, epochs, events, fired, iters, lastPrune, log_n>>
    /\ UNCHANGED <<batch, root_exists, pure, critic_resumed>>
    /\ UNCHANGED <<trained, ops, epoch_n, emitted, critic, epoch_num>>

\* trainable parameter selection; with an adapter, resume from the latest file
\* and force the multiplier to 1.0
SetupParams ==
    /\ cfg.trainer = "sd"
    /\ pc = "params"
    /\ ~(cfg.network /\ \E f \in get_latest_save_path : ~f.valid)
    /\ pc' = "optimizer"
    /\ multiplier' = IF cfg.network THEN {1} ELSE multiplier
    /\ error' = error
    /\ IF cfg.network
       THEN LET latest == get_latest_save_path
            IN  /\ resumed' = latest
                /\ found' = {f \in dir : LatestPattern(f)}
                /\ IF latest # {}
                   THEN LET f == CHOOSE x \in latest : TRUE
                        IN  /\ trained' = f.trained
                            /\ step_num' = load_weights_step(f)
                            /\ start_step' = IF f.meta # {} THEN load_weights_step(f)
                                             ELSE start_step
                   ELSE UNCHANGED <<step_num, start_step, trained>>
       ELSE /\ UNCHANGED <<resumed, step_num, start_step, trained>>
            /\ found' = {f \in dir : LatestPattern(f)}
    /\ UNCHANGED <<cfg, dir, clock, runs, step, epoch, batch_i, max_steps, epochs,
                   events, fired, iters, lastPrune, log_n>>
    /\ phases' = phases \o <<"params">>
    /\ UNCHANGED <<batch, root_exists, pure, critic_resumed>>
    /\ UNCHANGED <<ops, epoch_n, emitted, critic, epoch_num>>

\* a run() that enters the step loop straight after the optimizer
BuildOptimizer_SkipWarmup ==
    /\ cfg.trainer = "sd"
    /\ pc = "optimizer"
    /\ pc' = IF step_num < cfg.steps THEN "train" ELSE "final_sample"
    /\ phases' = phases \o <<"optimizer">>
    /\ batch_i' = 0
    /\ step' = step_num
    /\ UNCHANGED <<cfg, dir, clock, runs, step_num, start_step, epoch,
                   max_steps, epochs, events, fired, iters, resumed, found, lastPrune, log_n>>
    /\ UNCHANGED <<batch, root_exists, pure, critic_resumed>>
    /\ UNCHANGED <<error, trained, ops, epoch_n, emitted, multiplier, critic, epoch_num>>

\* get_optimizer / get_lr_scheduler over the full configured step count
BuildOptimizer ==
    /\ cfg.trainer = "sd"
    /\ pc = "optimizer"
    /\ pc' = "first_sample"
    /\ UNCHANGED <<cfg, dir, clock, runs, step_num, start_step, step, epoch, batch_i,
                   max_steps, epochs, events, fired, iters, resumed, found, lastPrune, log_n>>
    /\ phases' = phases \o <<"optimizer">>
    /\ UNCHANGED <<batch, root_exists, pure, critic_resumed>>
    /\ UNCHANGED <<error, trained, ops, epoch_n, emitted, multiplier, critic, epoch_num>>

\* the optional first sample, the optional baseline sample, iter(dataloader),
\* then the loop head: range(self.step_num, self.train_config.steps)
WarmupSample ==
    /\ cfg.trainer = "sd"
    /\ pc = "first_sample"
    /\ events' = events
                 \o (IF cfg.first_sample THEN <<Event("first_sample", {0})>> ELSE << >>)
                 \o (IF cfg.skip_first_sample THEN << >> ELSE <<Event("sample", {0})>>)
    /\ phases' = phases \o <<"warmup">>
    /\ batch_i' = 0
    /\ step' = step_num
    /\ pc' = IF step_num < cfg.steps THEN "train" ELSE "final_sample"
    /\ UNCHANGED <<cfg, dir, clock, runs, step_num, start_step, epoch,
                   max_steps, epochs, fired, iters, resumed, found, lastPrune, log_n>>
    /\ UNCHANGED <<batch, root_exists, pure, critic_resumed>>
    /\ UNCHANGED <<error, trained, ops, epoch_n, emitted, multiplier, critic, epoch_num>>

\* next(dataloader_iterator); on StopIteration iter(self.data_loader) and
\* next() again. batch_i is the number of batches the iterator has handed out
NextBatch ==
    IF cfg.dl_len = 0 THEN [batch |-> {}, pos |-> batch_i]
    ELSE IF batch_i < cfg.dl_len THEN [batch |-> {batch_i}, pos |-> batch_i + 1]
    ELSE [batch |-> {0}, pos |-> 1]

\* the batch, hook_train_loop(batch), learning-rate bookkeeping
TrainStep ==
    /\ cfg.trainer = "sd"
    /\ pc = "train"
    /\ pc' = "gate_sample"
    /\ fired' = {}
    /\ trained' = trained + 1
    /\ multiplier' = IF cfg.network THEN {cfg.hook_multiplier} ELSE multiplier
    /\ ops' = <<Op("pull"), Op("step")>>
    /\ batch' = NextBatch.batch
    /\ batch_i' = NextBatch.pos
    /\ phases' = IF phases[Len(phases)] = "loop" THEN phases ELSE Append(phases, "loop")
    /\ UNCHANGED <<cfg, dir, clock, runs, step_num, start_step, step, epoch,
                   max_steps, epochs, events, iters, resumed, found, lastPrune, log_n>>
    /\ UNCHANGED <<root_exists, pure, critic_resumed>>
    /\ UNCHANGED <<error, epoch_n, emitted, critic, epoch_num>>

GateSample ==
    /\ cfg.trainer = "sd"
    /\ pc = "gate_sample"
    /\ pc' = "gate_save"
    /\ IF Gate(cfg.sample_every)
       THEN /\ events' = Append(events, Event("sample", {step_num}))
            /\ fired' = fired \cup {"sample"}
            /\ ops' = Append(ops, Op("sample"))
       ELSE UNCHANGED <<events, fired, ops>>
    /\ UNCHANGED <<cfg, dir, clock, runs, step_num, start_step, step, epoch, batch_i,
                   max_steps, epochs, iters, resumed, found, lastPrune, log_n>>
    /\ UNCHANGED <<batch, phases, root_exists, pure, critic_resumed>>
    /\ UNCHANGED <<error, trained, epoch_n, emitted, multiplier, critic, epoch_num>>

Pruned(d) ==
    [before |-> Intermediates(d), removed |-> Removed(d), calls |-> 1,
     failed |-> FALSE]

GateSave ==
    /\ cfg.trainer = "sd"
    /\ pc = "gate_save"
    /\ pc' = "gate_log"
    /\ IF Gate(cfg.save_every)
       THEN /\ events' = Append(events, Event("save", {step_num}))
            /\ fired' = fired \cup {"save"}
            /\ dir' = save({step_num})
            /\ lastPrune' = Pruned({f \in dir : ~SameName(f, SavedFile({step_num}))}
                                   \cup {SavedFile({step_num})})
            /\ clock' = clock + 1
            /\ root_exists' = TRUE
            /\ multiplier' = save_multiplier.after
            /\ ops' = Append(ops, Op("save"))
       ELSE UNCHANGED <<events, fired, dir, lastPrune, clock, root_exists,
                        multiplier, ops>>
    /\ UNCHANGED <<cfg, runs, step_num, start_step, step, epoch, batch_i,
                   max_steps, epochs, iters, resumed, found, log_n>>
    /\ UNCHANGED <<batch, phases, pure, critic_resumed>>
    /\ UNCHANGED <<error, trained, epoch_n, emitted, critic, epoch_num>>

GateLog ==
    /\ cfg.trainer = "sd"
    /\ pc = "gate_log"
    /\ pc' = "advance"
    /\ IF Gate(cfg.log_every)
       THEN /\ fired' = fired \cup {"log"}
            /\ ops' = Append(ops, Op("log"))
       ELSE UNCHANGED <<fired, ops>>
    /\ UNCHANGED <<cfg, dir, clock, runs, step_num, start_step, step, epoch, batch_i,
                   max_steps, epochs, events, iters, resumed, found, lastPrune, log_n>>
    /\ UNCHANGED <<batch, phases, root_exists, pure, critic_resumed>>
    /\ UNCHANGED <<error, trained, epoch_n, emitted, multiplier, critic, epoch_num>>

\* an end of iteration that stores the number of iterations of this process
EndOfStep_Relative ==
    /\ cfg.trainer = "sd"
    /\ pc = "advance"
    /\ step_num' = step - start_step
    /\ iters' = iters + 1
    /\ ops' = Append(ops, Op("advance"))
    /\ IF step + 1 < cfg.steps
       THEN /\ step' = step + 1
            /\ pc' = "train"
       ELSE /\ step' = step
            /\ pc' = "final_sample"
    /\ UNCHANGED <<cfg, dir, clock, runs, start_step, epoch, batch_i, max_steps,
                   epochs, events, fired, resumed, found, lastPrune, log_n>>
    /\ UNCHANGED <<batch, phases, root_exists, pure, critic_resumed>>
    /\ UNCHANGED <<error, trained, epoch_n, emitted, multiplier, critic, epoch_num>>

\* `self.step_num = step`, then the next value of range() or the loop's end
EndOfStep ==
    /\ cfg.trainer = "sd"
    /\ pc = "advance"
    /\ step_num' = step
    /\ iters' = iters + 1
    /\ ops' = Append(ops, Op("advance"))
    /\ IF step + 1 < cfg.steps
       THEN /\ step' = step + 1
            /\ pc' = "train"
       ELSE /\ step' = step
            /\ pc' = "final_sample"
    /\ UNCHANGED <<cfg, dir, clock, runs, start_step, epoch, batch_i, max_steps,
                   epochs, events, fired, resumed, found, lastPrune, log_n>>
    /\ UNCHANGED <<batch, phases, root_exists, pure, critic_resumed>>
    /\ UNCHANGED <<error, trained, epoch_n, emitted, multiplier, critic, epoch_num>>

\* self.sample(self.step_num + 1)
FinalSample ==
    /\ cfg.trainer = "sd"
    /\ pc = "final_sample"
    /\ pc' = "final_save"
    /\ events' = Append(events, Event("final_sample", {step_num + 1}))
    /\ UNCHANGED <<cfg, dir, clock, runs, step_num, start_step, step, epoch, batch_i,
                   max_steps, epochs, fired, iters, resumed, found, lastPrune, log_n>>
    /\ phases' = phases \o <<"final_sample">>
    /\ UNCHANGED <<batch, root_exists, pure, critic_resumed>>
    /\ UNCHANGED <<error, trained, ops, epoch_n, emitted, multiplier, critic, epoch_num>>

\* self.save(), then the release of the model objects
FinalSave ==
    /\ cfg.trainer = "sd"
    /\ pc = "final_save"
    /\ pc' = "done"
    /\ events' = Append(events, Event("save", {}))
    /\ dir' = save({})
    /\ lastPrune' = Pruned({f \in dir : ~SameName(f, SavedFile({}))}
                           \cup {SavedFile({})})
    /\ clock' = clock + 1
    /\ root_exists' = TRUE
    /\ multiplier' = save_multiplier.after
    /\ phases' = phases \o <<"final_save", "release">>
    /\ UNCHANGED <<cfg, runs, step_num, start_step, step, epoch, batch_i,
                   max_steps, epochs, fired, iters, resumed, found, log_n>>
    /\ UNCHANGED <<batch, pure, critic_resumed>>
    /\ UNCHANGED <<error, trained, ops, epoch_n, emitted, critic, epoch_num>>

\* the files clean_up_saves removes from directory d, in removal order
RemoveList(d) ==
    LET files == {f \in d : IntermediatePattern(f)}
    IN  IF Cardinality(files) > cfg.max_step_saves_to_keep
        THEN PySliceTo(SortByCtime(files), 0 - cfg.max_step_saves_to_keep)
        ELSE << >>

\* a save() inside which os.remove raises on the k-th file to delete: the
\* file is written, the files before the k-th are gone, and the exception
\* leaves clean_up_saves, save() and run()
PruneFails ==
    /\ cfg.trainer = "sd"
    /\ \/ pc = "gate_save" /\ Gate(cfg.save_every)
       \/ pc = "final_save"
    /\ LET label == IF pc = "final_save" THEN {} ELSE {step_num}
           written == {f \in dir : ~SameName(f, SavedFile(label))}
                      \cup {SavedFile(label)}
           list == RemoveList(written)
       IN  /\ list # << >>
           /\ \E k \in 1..Len(list) :
                 LET gone == Range(SubSeq(list, 1, k - 1))
                 IN  /\ dir' = written \ gone
                     /\ lastPrune' = [before |-> Intermediates(written),
                                      removed |-> gone, calls |-> 1,
                                      failed |-> TRUE]
           /\ events' = Append(events, Event("save", label))
    /\ fired' = IF pc = "gate_save" THEN fired \cup {"save"} ELSE fired
    /\ phases' = IF pc = "final_save" THEN Append(phases, "final_save") ELSE phases
    /\ clock' = clock + 1
    /\ root_exists' = TRUE
    /\ pc' = "crashed"
    /\ error' = "OSError"
    /\ multiplier' = save_multiplier.after
    /\ ops' = IF pc = "gate_save" THEN Append(ops, Op("save")) ELSE ops
    /\ UNCHANGED <<cfg, runs, step_num, start_step, step, epoch, batch_i,
                   max_steps, epochs, iters, resumed, found, log_n>>
    /\ UNCHANGED <<batch, pure, critic_resumed>>
    /\ UNCHANGED <<trained, epoch_n, emitted, critic, epoch_num>>

\* --------------------------------------------------- TrainVAEProcess.run
\* load_datasets and the epoch / step budget; start_step = self.step_num
VAEPrepare ==
    /\ cfg.trainer = "vae"
    /\ pc = "start"
    /\ cfg.has_max_steps
    /\ pc' = "load_vae"
    /\ LET n == cfg.dl_len
           max_step_epochs == max_steps \div n
           num_epochs == IF cfg.epochs = {} THEN max_step_epochs
                         ELSE LET e == CHOOSE x \in cfg.epochs : TRUE
                              IN  IF e > max_step_epochs THEN max_step_epochs ELSE e
           max_epoch_steps == n * num_epochs
           num_steps == IF max_steps > max_epoch_steps THEN max_epoch_steps
                        ELSE max_steps
       IN  /\ max_steps' = num_steps
           /\ epochs' = num_epochs
    /\ start_step' = step_num
    /\ UNCHANGED <<cfg, dir, clock, runs, step_num, step, epoch, batch_i, events,
                   fired, iters, resumed, found, lastPrune, log_n>>
    /\ UNCHANGED <<batch, phases, root_exists, pure, critic_resumed>>
    /\ UNCHANGED <<error, trained, ops, epoch_n, emitted, multiplier, critic, epoch_num>>

\* `self.max_steps // len(self.data_loader)` with max_steps None: TypeError
VAEPrepareFails ==
    /\ cfg.trainer = "vae"
    /\ pc = "start"
    /\ ~cfg.has_max_steps
    /\ pc' = "crashed"
    /\ error' = "TypeError"
    /\ UNCHANGED <<cfg, dir, clock, runs, step_num, start_step, step, epoch, batch_i,
                   max_steps, epochs, events, fired, iters, resumed, found, lastPrune, log_n>>
    /\ UNCHANGED <<batch, phases, root_exists, pure, critic_resumed>>
    /\ UNCHANGED <<trained, ops, epoch_n, emitted, multiplier, critic, epoch_num>>

\* load_vae: the latest "{job_name}*.safetensors" by mtime replaces vae_path;
\* the step and epoch counters are not read from it; a partly written file
\* cannot be parsed and the loader's exception ends the run
VAELoadVae ==
    /\ cfg.trainer = "vae"
    /\ pc = "load_vae"
    /\ LET files == {f \in dir : LatestPattern(f)}
       IN  /\ found' = files
           /\ resumed' = IF files # {} THEN {Latest(files)} ELSE {}
           /\ pc' = IF files # {} /\ ~Latest(files).valid THEN "crashed"
                    ELSE IF cfg.use_critic THEN "critic_setup"
                    ELSE "vae_sample"
           /\ error' = IF files # {} /\ ~Latest(files).valid THEN "ResumeError"
                       ELSE error
           /\ trained' = IF files # {} /\ Latest(files).valid
                         THEN Latest(files).trained ELSE trained
    /\ UNCHANGED <<cfg, dir, clock, runs, step_num, start_step, step, epoch, batch_i,
                   max_steps, epochs, events, fired, iters, lastPrune, log_n>>
    /\ UNCHANGED <<batch, phases, root_exists, pure, critic_resumed>>
    /\ UNCHANGED <<ops, epoch_n, emitted, multiplier, critic, epoch_num>>

\* glob "CRITIC_{job_name}*.safetensors"
CriticPattern(f) == f.prefix = "CRITIC_"

\* self.critic.setup(): Critic.load_weights loads the latest CRITIC_ file by
\* mtime, if there is one; a partly written file cannot be parsed and the
\* loader's exception ends the run
CriticSetup ==
    /\ cfg.trainer = "vae"
    /\ pc = "critic_setup"
    /\ LET files == {f \in dir : CriticPattern(f)}
       IN  /\ critic_resumed' = IF files # {} THEN {Latest(files)} ELSE {}
           /\ pc' = IF files # {} /\ ~Latest(files).valid THEN "crashed"
                    ELSE "vae_sample"
           /\ error' = IF files # {} /\ ~Latest(files).valid THEN "ResumeError"
                       ELSE error
    /\ UNCHANGED <<cfg, dir, clock, runs, step_num, start_step, step, epoch, batch_i,
                   max_steps, epochs, events, fired, iters, resumed, found, lastPrune,
                   log_n>>
    /\ UNCHANGED <<batch, phases, root_exists, pure>>
    /\ UNCHANGED <<trained, ops, epoch_n, emitted, multiplier, critic, epoch_num>>

\* where `for epoch in range(...)` goes when entered with epoch e, step_num s
EpochHead(e, s) ==
    IF e < epochs /\ ~(s >= max_steps) THEN "vae_train" ELSE "final_save"

\* optimizer and scheduler construction, `self.sample()` (which iterates
\* self.sample_sources: TypeError on None), then the loop head
VAEBaselineSample ==
    /\ cfg.trainer = "vae"
    /\ pc = "vae_sample"
    /\ IF cfg.sample_sources
       THEN /\ events' = Append(events, Event("sample", {}))
            /\ epoch' = 0
            /\ batch_i' = 0
            /\ pc' = EpochHead(0, step_num)
            /\ error' = error
       ELSE /\ pc' = "crashed"
            /\ error' = "TypeError"
            /\ UNCHANGED <<events, epoch, batch_i>>
    /\ UNCHANGED <<cfg, dir, clock, runs, step_num, start_step, step, max_steps,
                   epochs, fired, iters, resumed, found, lastPrune, log_n>>
    /\ UNCHANGED <<batch, phases, root_exists, pure, critic_resumed>>
    /\ UNCHANGED <<trained, ops, epoch_n, emitted, multiplier, critic, epoch_num>>

\* the operations of Critic.step on the critic's gradient and optimizer
\* state: optimizer.step() changes the parameters only by the gradients .grad
\* holds when it is called
critic_zero_grad(c) == [c EXCEPT !.grads = FALSE]

critic_backward(c) == [c EXCEPT !.grads = TRUE]

critic_optimizer_step(c) ==
    [c EXCEPT !.opt_steps = @ + 1, !.applied = IF c.grads THEN @ + 1 ELSE @]

critic_scheduler_step(c) == [c EXCEPT !.sched_steps = @ + 1]

\* Critic.step: n iterations of zero_grad, forward and backward of the critic
\* loss, zero_grad, optimizer.step, scheduler.step
RECURSIVE critic_step(_, _)
critic_step(c, n) ==
    IF n = 0 THEN c
    ELSE critic_step(
           critic_scheduler_step(critic_optimizer_step(critic_zero_grad(
             critic_backward(critic_zero_grad(c))))), n - 1)

RECURSIVE CriticStepOps(_)
CriticStepOps(n) ==
    IF n = 0 THEN << >>
    ELSE <<"critic.zero_grad", "critic.backward", "critic.zero_grad",
           "critic.step", "critic.scheduler">> \o CriticStepOps(n - 1)

\* an iteration that updates the critic after the generator loss has read it
TrainOps_CriticLast ==
    <<"pull">>
    \o (IF cfg.use_critic THEN <<"get_critic_loss">> ELSE << >>)
    \o (IF cfg.use_critic THEN CriticStepOps(cfg.num_critic_per_gen) ELSE << >>)
    \o <<"zero_grad", "backward", "step", "scheduler">>

\* the calls of one iteration up to the generator's optimizer and scheduler
\* step: the batch, critic.step, the generator losses with get_critic_loss,
\* optimizer.zero_grad, loss.backward, optimizer.step, scheduler.step
TrainOps ==
    <<"pull">>
    \o (IF cfg.use_critic THEN CriticStepOps(cfg.num_critic_per_gen) ELSE << >>)
    \o (IF cfg.use_critic THEN <<"get_critic_loss">> ELSE << >>)
    \o <<"zero_grad", "backward", "step", "scheduler">>

\* forward pass, critic update, loss composition, optimizer step, the two
\* loss accumulators
VAETrainStep ==
    /\ cfg.trainer = "vae"
    /\ pc = "vae_train"
    /\ pc' = "vae_gate_sample"
    /\ fired' = {}
    /\ batch' = {batch_i}
    /\ log_n' = log_n + 1
    /\ epoch_n' = epoch_n + 1
    /\ trained' = trained + 1
    /\ critic' = IF cfg.use_critic
                 THEN critic_step(CriticIdle, cfg.num_critic_per_gen)
                 ELSE critic
    /\ ops' = [i \in 1..Len(TrainOps) |-> Op(TrainOps[i])]
    /\ UNCHANGED <<cfg, dir, clock, runs, step_num, start_step, step, epoch, batch_i,
                   max_steps, epochs, events, iters, resumed, found, lastPrune>>
    /\ UNCHANGED <<phases, root_exists, pure, critic_resumed>>
    /\ UNCHANGED <<error, emitted, multiplier, epoch_num>>

\* the periodic gate of one family inside `if self.step_num != start_step`
VAEGate(interval) ==
    /\ step_num # start_step
    /\ interval # 0
    /\ step_num % interval = 0

VAEGateSample ==
    /\ cfg.trainer = "vae"
    /\ pc = "vae_gate_sample"
    /\ pc' = "vae_gate_save"
    /\ IF VAEGate(cfg.sample_every)
       THEN /\ events' = Append(events, Event("sample", {step_num}))
            /\ fired' = fired \cup {"sample"}
            /\ ops' = Append(ops, Op("sample"))
       ELSE UNCHANGED <<events, fired, ops>>
    /\ UNCHANGED <<cfg, dir, clock, runs, step_num, start_step, step, epoch, batch_i,
                   max_steps, epochs, iters, resumed, found, lastPrune, log_n>>
    /\ UNCHANGED <<batch, phases, root_exists, pure, critic_resumed>>
    /\ UNCHANGED <<error, trained, epoch_n, emitted, multiplier, critic, epoch_num>>

\* the file TrainVAEProcess.save(step) writes (training_info.step is step_num)
VAESavedFile(label) ==
    [File("", label, clock, {step_num}, {step_num})
        EXCEPT !.trained = trained, !.epoch = {epoch_num}, !.in_epoch = {epoch}]

\* the file Critic.save(step) writes, after the autoencoder's
CriticSavedFile(label) ==
    [VAESavedFile(label) EXCEPT !.prefix = "CRITIC_", !.ctime = clock + 1]

\* the files TrainVAEProcess.save(label) writes
VAEWritten(label) ==
    IF cfg.use_critic THEN {VAESavedFile(label), CriticSavedFile(label)}
    ELSE {VAESavedFile(label)}

\* the directory after TrainVAEProcess.save(label)
vae_save(label) ==
    {f \in dir : \A g \in VAEWritten(label) : ~SameName(f, g)}
    \cup VAEWritten(label)

VAEGateSave ==
    /\ cfg.trainer = "vae"
    /\ pc = "vae_gate_save"
    /\ pc' = "vae_gate_log"
    /\ IF VAEGate(cfg.save_every)
       THEN /\ events' = Append(events, Event("save", {step_num}))
            /\ fired' = fired \cup {"save"}
            /\ dir' = vae_save({step_num})
            /\ clock' = clock + Cardinality(VAEWritten({step_num}))
            /\ ops' = Append(ops, Op("save"))
       ELSE UNCHANGED <<events, fired, dir, clock, ops>>
    /\ UNCHANGED <<cfg, runs, step_num, start_step, step, epoch, batch_i, max_steps,
                   epochs, iters, resumed, found, lastPrune, log_n>>
    /\ UNCHANGED <<batch, phases, root_exists, pure, critic_resumed>>
    /\ UNCHANGED <<error, trained, epoch_n, emitted, multiplier, critic, epoch_num>>

\* the log gate: the averages go to the writer, log_losses is reset
VAEGateLog ==
    /\ cfg.trainer = "vae"
    /\ pc = "vae_gate_log"
    /\ pc' = "vae_advance"
    /\ IF VAEGate(cfg.log_every)
       THEN /\ fired' = fired \cup {"log"}
            /\ log_n' = 0
            /\ ops' = Append(ops, Op("log"))
       ELSE UNCHANGED <<fired, log_n, ops>>
    /\ UNCHANGED <<cfg, dir, clock, runs, step_num, start_step, step, epoch, batch_i,
                   max_steps, epochs, events, iters, resumed, found, lastPrune>>
    /\ UNCHANGED <<batch, phases, root_exists, pure, critic_resumed>>
    /\ UNCHANGED <<error, trained, epoch_n, emitted, multiplier, critic, epoch_num>>

\* `self.step_num += 1`, then the next batch of the epoch or the epoch's end
VAEAdvance ==
    /\ cfg.trainer = "vae"
    /\ pc = "vae_advance"
    /\ step_num' = step_num + 1
    /\ iters' = iters + 1
    /\ ops' = Append(ops, Op("advance"))
    /\ batch_i' = batch_i + 1
    /\ pc' = IF batch_i + 1 < cfg.dl_len /\ ~(step_num + 1 >= max_steps)
             THEN "vae_train" ELSE "epoch_end"
    /\ UNCHANGED <<cfg, dir, clock, runs, start_step, step, epoch, max_steps, epochs,
                   events, fired, resumed, found, lastPrune, log_n>>
    /\ UNCHANGED <<batch, phases, root_exists, pure, critic_resumed>>
    /\ UNCHANGED <<error, trained, epoch_n, emitted, multiplier, critic, epoch_num>>

\* end of epoch: with a writer, sum(log_losses[key]) / len(log_losses[key])
\* raises ZeroDivisionError on an empty accumulator; emitted records the
\* epoch, the number of per-step values the average was taken over (the
\* trailing `over` steps) and the number of steps of the epoch; then
\* epoch_losses is reset
VAEEpochEnd ==
    /\ cfg.trainer = "vae"
    /\ pc = "epoch_end"
    /\ IF cfg.writer /\ log_n = 0
       THEN /\ pc' = "crashed"
            /\ error' = "ZeroDivisionError"
            /\ UNCHANGED <<epoch, batch_i, emitted, epoch_n>>
       ELSE /\ epoch' = epoch + 1
            /\ batch_i' = 0
            /\ emitted' = IF cfg.writer
                          THEN {[epoch |-> epoch, over |-> log_n, steps |-> epoch_n]}
                          ELSE emitted
            /\ epoch_n' = 0
            /\ error' = error
            /\ pc' = EpochHead(epoch + 1, step_num)
    /\ UNCHANGED <<cfg, dir, clock, runs, step_num, start_step, step, max_steps,
                   epochs, events, fired, iters, resumed, found, lastPrune, log_n>>
    /\ UNCHANGED <<batch, phases, root_exists, pure, critic_resumed>>
    /\ UNCHANGED <<trained, ops, multiplier, critic, epoch_num>>

\* self.save()
VAEFinalSave ==
    /\ cfg.trainer = "vae"
    /\ pc = "final_save"
    /\ pc' = "done"
    /\ events' = Append(events, Event("save", {}))
    /\ dir' = vae_save({})
    /\ clock' = clock + Cardinality(VAEWritten({}))
    /\ UNCHANGED <<cfg, runs, step_num, start_step, step, epoch, batch_i, max_steps,
                   epochs, fired, iters, resumed, found, lastPrune, log_n>>
    /\ UNCHANGED <<batch, phases, root_exists, pure, critic_resumed>>
    /\ UNCHANGED <<error, trained, ops, epoch_n, emitted, multiplier, critic, epoch_num>>

\* where a kill can fall inside TrainVAEProcess.save: inside the autoencoder's
\* save_file ("main"), and with the critic enabled between that and
\* self.critic.save(step) ("between") or inside the critic's save_file
\* ("critic")
KillPoints == IF cfg.use_critic THEN {"main", "between", "critic"} ELSE {"main"}

\* the files a save killed at `point` has written: save_file(state_dict, path,
\* meta) writes to path itself, so the file it was killed in is left partly
\* written
KilledWritten(label, point) ==
    LET partial(f) == [f EXCEPT !.valid = FALSE, !.meta = {}]
    IN  CASE point = "main" -> {partial(VAESavedFile(label))}
          [] point = "between" -> {VAESavedFile(label)}
          [] point = "critic" ->
                {VAESavedFile(label), partial(CriticSavedFile(label))}

\* The process is killed inside save(): the files written so far stay as they
\* are. The job is then started again on the same directory.
KilledInSave ==
    /\ cfg.trainer = "vae"
    /\ runs < MaxRuns
    /\ \/ pc = "vae_gate_save" /\ VAEGate(cfg.save_every)
       \/ pc = "final_save"
    /\ \E point \in KillPoints :
         LET label == IF pc = "final_save" THEN {} ELSE {step_num}
             written == KilledWritten(label, point)
         IN  /\ dir' = {f \in dir : \A g \in written : ~SameName(f, g)} \cup written
             /\ clock' = clock + Cardinality(written)
    /\ runs' = runs + 1
    /\ pc' = "new"
    /\ step_num' = 0
    /\ start_step' = 0
    /\ step' = 0
    /\ epoch' = 0
    /\ batch_i' = 0
    /\ max_steps' = cfg.steps
    /\ epochs' = 0
    /\ events' = << >>
    /\ fired' = {}
    /\ iters' = 0
    /\ resumed' = {}
    /\ found' = {}
    /\ log_n' = 0
    /\ batch' = {}
    /\ phases' = << >>
    /\ UNCHANGED <<cfg, lastPrune, root_exists, pure>>
    /\ error' = ""
    /\ trained' = 0
    /\ ops' = << >>
    /\ epoch_n' = 0
    /\ emitted' = {}
    /\ multiplier' = {}
    /\ critic' = CriticIdle
    /\ epoch_num' = 0
    /\ critic_resumed' = {}

\* the process ends (finished or killed) and the job is started again on the
\* same directory: a new process object is constructed
Restart ==
    /\ runs < MaxRuns
    /\ pc # "new"
    /\ runs' = runs + 1
    /\ pc' = "new"
    /\ step_num' = 0
    /\ start_step' = 0
    /\ step' = 0
    /\ epoch' = 0
    /\ batch_i' = 0
    /\ max_steps' = cfg.steps
    /\ epochs' = 0
    /\ events' = << >>
    /\ fired' = {}
    /\ iters' = 0
    /\ resumed' = {}
    /\ found' = {}
    /\ log_n' = 0
    /\ batch' = {}
    /\ phases' = << >>
    /\ UNCHANGED <<cfg, dir, clock, lastPrune>>
    /\ UNCHANGED <<root_exists, pure>>
    /\ error' = ""
    /\ trained' = 0
    /\ ops' = << >>
    /\ epoch_n' = 0
    /\ emitted' = {}
    /\ multiplier' = {}
    /\ critic' = CriticIdle
    /\ epoch_num' = 0
    /\ critic_resumed' = {}

Next ==
    \/ SDConstruct
    \/ VAEConstruct
    \/ LoadModel
    \/ SDResumeFails
    \/ SetupParams
    \/ BuildOptimizer
    \/ WarmupSample
    \/ TrainStep
    \/ GateSample
    \/ GateSave
    \/ GateLog
    \/ EndOfStep
    \/ FinalSample
    \/ FinalSave
    \/ PruneFails
    \/ VAEPrepare
    \/ VAEPrepareFails
    \/ VAELoadVae
    \/ CriticSetup
    \/ VAEBaselineSample
    \/ VAETrainStep
    \/ VAEGateSample
    \/ VAEGateSave
    \/ VAEGateLog
    \/ VAEAdvance
    \/ VAEEpochEnd
    \/ VAEFinalSave
    \/ KilledInSave
    \/ Restart

Spec == Init /\ [][Next]_vars

\* ------------------------------------------------------- loss functions
\* Critic.get_critic_loss and the loss composition of TrainVAEProcess.run are
\* functions of the counters and weights alone: SpecPure applies them to every
\* input of a bounded set. Tensor values are integers; a quotient is the pair
\* of its numerator and denominator (den = 0: ZeroDivisionError).
Terms == {"style", "content", "kld", "mse", "tv"}
TermValues == {1, 2}
CriticMeans == {0 - 1, 2}

\* a warm-up window that includes its last step
get_critic_loss_ClosedWindow(s, critic_start, warmup_steps, mean) ==
    IF critic_start > s
    THEN [evaluated |-> FALSE, scale |-> [num |-> 1, den |-> 1],
          num |-> 0, den |-> 1]
    ELSE LET warmup_scaler ==
                 IF s <= critic_start + warmup_steps
                 THEN [num |-> s - critic_start, den |-> warmup_steps]
                 ELSE [num |-> 1, den |-> 1]
         IN  [evaluated |-> TRUE, scale |-> warmup_scaler,
              num |-> (0 - mean) * warmup_scaler.num, den |-> warmup_scaler.den]

\* Critic.get_critic_loss with self.process.step_num = s, self.start_step =
\* critic_start and torch.mean(self.model(vgg_pred)) = mean
get_critic_loss(s, critic_start, warmup_steps, mean) ==
    IF critic_start > s
    THEN [evaluated |-> FALSE, scale |-> [num |-> 1, den |-> 1],
          num |-> 0, den |-> 1]
    ELSE LET warmup_scaler ==
                 IF s < critic_start + warmup_steps
                 THEN [num |-> s - critic_start, den |-> warmup_steps]
                 ELSE [num |-> 1, den |-> 1]
         IN  [evaluated |-> TRUE, scale |-> warmup_scaler,
              num |-> (0 - mean) * warmup_scaler.num, den |-> warmup_scaler.den]

\* a loss getter that computes its term whatever the weight
get_loss_Always(weight, value) ==
    [loss |-> value, executed |-> TRUE]

\* get_style_loss / get_content_loss / get_mse_loss / get_kld_loss /
\* get_tv_loss: the term if its weight is positive, else the constant 0.0
get_loss(weight, value) ==
    IF weight > 0 THEN [loss |-> value, executed |-> TRUE]
    ELSE [loss |-> 0, executed |-> FALSE]

\* the generator loss of one iteration
compose_loss(in) ==
    LET style_loss == get_loss(in.weight["style"], in.value["style"]).loss
                      * in.weight["style"]
        content_loss == get_loss(in.weight["content"], in.value["content"]).loss
                        * in.weight["content"]
        kld_loss == get_loss(in.weight["kld"], in.value["kld"]).loss
                    * in.weight["kld"]
        mse_loss == get_loss(in.weight["mse"], in.value["mse"]).loss
                    * in.weight["mse"]
        tv_loss == get_loss(in.weight["tv"], in.value["tv"]).loss
                   * in.weight["tv"]
        critic_gen_loss == IF in.use_critic THEN in.critic_gen * in.critic_weight
                           ELSE 0
    IN  [term |-> [t \in Terms |->
                     get_loss(in.weight[t], in.value[t]).loss * in.weight[t]],
         executed |-> {t \in Terms : get_loss(in.weight[t], in.value[t]).executed},
         critic_evaluated |-> in.use_critic,
         loss |-> style_loss + content_loss + kld_loss + mse_loss + tv_loss
                  + critic_gen_loss]

CriticInputs ==
    [fn : {"critic_in"}, step_num : 0..MaxSteps, start_step : 0..MaxWarmup,
     warmup_steps : 0..MaxWarmup, mean : CriticMeans]

LossInputs ==
    [fn : {"loss_in"}, weight : [Terms -> 0..MaxWeight],
     value : [Terms -> TermValues], use_critic : BOOLEAN,
     critic_weight : 0..MaxWeight, critic_gen : CriticMeans]

InitPure ==
    /\ pure \in CriticInputs \cup LossInputs
    /\ cfg = [trainer |-> "vae", network |-> FALSE, steps |-> MaxSteps,
              sample_every |-> 0, save_every |-> 0, log_every |-> 0,
              max_step_saves_to_keep |-> 0, first_sample |-> FALSE,
              skip_first_sample |-> FALSE, dl_len |-> 1, epochs |-> {},
              writer |-> FALSE, sample_sources |-> TRUE, has_max_steps |-> TRUE,
              hook_multiplier |-> 1, use_critic |-> FALSE,
              num_critic_per_gen |-> 1]
    /\ dir = {}
    /\ clock = 1
    /\ runs = 1
    /\ lastPrune = [before |-> {}, removed |-> {}, calls |-> 0, failed |-> FALSE]
    /\ root_exists = FALSE
    /\ Constructed

GetCriticLoss ==
    /\ pure.fn = "critic_in"
    /\ pure' = [fn |-> "critic_out", in |-> pure,
                out |-> get_critic_loss(pure.step_num, pure.start_step,
                                        pure.warmup_steps, pure.mean)]
    /\ UNCHANGED <<cfg, dir, clock, runs, pc, step_num, start_step, step, epoch,
                   batch_i, max_steps, epochs, events, fired, iters, resumed, found,
                   lastPrune, log_n, batch, phases, root_exists>>
    /\ UNCHANGED <<error, trained, ops, epoch_n, emitted, multiplier, critic, epoch_num,
                   critic_resumed>>

ComposeLoss ==
    /\ pure.fn = "loss_in"
    /\ pure' = [fn |-> "loss_out", in |-> pure, out |-> compose_loss(pure)]
    /\ UNCHANGED <<cfg, dir, clock, runs, pc, step_num, start_step, step, epoch,
                   batch_i, max_steps, epochs, events, fired, iters, resumed, found,
                   lastPrune, log_n, batch, phases, root_exists>>
    /\ UNCHANGED <<error, trained, ops, epoch_n, emitted, multiplier, critic, epoch_num,
                   critic_resumed>>

NextPure ==
    \/ GetCriticLoss
    \/ ComposeLoss

SpecPure == InitPure /\ [][NextPure]_vars

\* ------------------------------------------------------------------ claims
IsSD == cfg.trainer = "sd"
IsVAE == cfg.trainer = "vae"
SaveEvents == SelectSeq(events, LAMBDA e : e.kind = "save")
HasSaved == Len(SaveEvents) > 0
OnlyElement(S) == CHOOSE x \in S : TRUE

\* C1: resume idempotence with an adapter: a run that resumes from a checkpoint
\* save() wrote while the step counter was N has step_num = N and start_step = N
\* before its first iteration, and no periodic family fires in that iteration.
C1_ResumeIdempotence ==
    (IsSD /\ cfg.network /\ iters = 0 /\ resumed # {}
          /\ pc \in {"optimizer", "first_sample", "train", "gate_sample", "gate_save",
                     "gate_log", "advance"})
        => \A f \in resumed :
              f.counter # {} =>
                  /\ step_num = OnlyElement(f.counter)
                  /\ start_step = OnlyElement(f.counter)
                  /\ fired = {}

\* C2: retention bound: once save() has returned, the number of intermediate
\* checkpoints does not exceed max_step_saves_to_keep, for every non-negative
\* max_step_saves_to_keep.
C2_RetentionBound ==
    (IsSD /\ HasSaved) =>
        Cardinality({f \in dir : f.prefix = "" /\ f.suffix # {}})
            <= cfg.max_step_saves_to_keep

\* C3: save schedule of a fresh run with save interval k > 0 and T steps: one
\* intermediate save labelled s for every 0 < s < T with s % k = 0, in
\* increasing order, then exactly one final save; no save labelled 0.
C3_SaveSchedule ==
    (IsSD /\ pc = "done" /\ found = {} /\ cfg.save_every > 0) =>
        LET k == cfg.save_every
            want == {s \in 1..(cfg.steps - 1) : s % k = 0}
            n == Cardinality(want)
        IN  /\ Len(SaveEvents) = n + 1
            /\ \A i \in 1..n : SaveEvents[i].label = {i * k}
            /\ SaveEvents[n + 1].label = {}

\* the gate the specification describes
should_fire(s, start, interval) ==
    IF interval = 0 THEN FALSE
    ELSE IF s = start THEN FALSE
    ELSE s % interval = 0

\* C4: periodic gate: in both step loops each of the three families fires in an
\* iteration exactly when should_fire(step_num, start_step, interval): never for
\* a falsy interval, never when step_num = start_step, else step_num % interval = 0.
C4_PeriodicGate ==
    (pc \in {"advance", "vae_advance"}) =>
        /\ ("sample" \in fired) = should_fire(step_num, start_step, cfg.sample_every)
        /\ ("save" \in fired) = should_fire(step_num, start_step, cfg.save_every)
        /\ ("log" \in fired) = should_fire(step_num, start_step, cfg.log_every)
        /\ \A fam \in fired : step_num # start_step

C4_Witness ==
    /\ pc \in {"advance", "vae_advance"}
    /\ cfg.sample_every # 0 /\ cfg.save_every # 0 /\ cfg.log_every # 0
    /\ "save" \in fired
    /\ "sample" \notin fired
    /\ step_num > start_step
    /\ start_step > 0

\* C5: step counter advance: after j completed iterations of a run
\* step_num = start_step + j.
C5_StepAdvance ==
    (IsSD /\ pc \in {"train", "gate_sample", "gate_save", "gate_log", "advance",
                     "final_sample", "final_save", "done"})
        => step_num = start_step + iters

\* C6: finalization in both trainers: a run that has left the step loop and
\* finished has performed exactly one final sample pass and then exactly one
\* save to the unsuffixed final path.
C6_Finalization ==
    (pc = "done") =>
        LET n == Len(events)
        IN  /\ n >= 2
            /\ events[n] = Event("save", {})
            /\ events[n - 1].kind = "final_sample"
            /\ Cardinality({i \in 1..n : events[i].kind = "final_sample"}) = 1
            /\ Cardinality({i \in 1..n : events[i] = Event("save", {})}) = 1

\* the k most recently created files of S
Newest(S, k) == {f \in S : Cardinality({g \in S : g.ctime > f.ctime}) < k}

\* C7: pruning keeps the newest: when save() finds more than keep_n intermediate
\* checkpoints exactly the keep_n most recently created remain; when the count is
\* <= keep_n nothing is deleted.
C7_PruneKeepsNewest ==
    (IsSD /\ lastPrune.calls > 0) =>
        IF Cardinality(lastPrune.before) > cfg.max_step_saves_to_keep
        THEN lastPrune.before \ lastPrune.removed
                 = Newest(lastPrune.before, cfg.max_step_saves_to_keep)
        ELSE lastPrune.removed = {}

FinalExists == \E f \in dir : f.prefix = "" /\ f.suffix = {}

\* C8: the final checkpoint is never pruned: once {job_name}.safetensors exists
\* no step of the trainer removes it, and pruning removes suffixed files only.
C8_FinalNeverPruned ==
    [][(FinalExists => FinalExists')
       /\ \A f \in lastPrune'.removed : f.suffix # {}]_vars

C8_Witness ==
    /\ IsSD
    /\ FinalExists
    /\ lastPrune.removed # {}
    /\ HasSaved

\* C9: resume protocol with an adapter: the most recently created file matching
\* {job_name}*.safetensors is loaded; a metadata step becomes step_num and
\* start_step and the loop begins there; with no checkpoint or no metadata step
\* the run begins with step_num = start_step = 0.
C9_ResumeProtocol ==
    (IsSD /\ cfg.network /\ iters = 0
          /\ pc \in {"optimizer", "first_sample", "train", "final_sample"}) =>
        LET cands == {f \in dir : f.prefix = ""}
            newest == {f \in cands : \A g \in cands : g.ctime <= f.ctime}
            begin == IF \E f \in newest : f.meta # {}
                     THEN OnlyElement(OnlyElement(newest).meta) ELSE 0
        IN  /\ resumed = newest
            /\ step_num = begin
            /\ start_step = begin
            /\ pc = "train" => step = begin

C9_Witness ==
    /\ IsSD /\ cfg.network
    /\ pc = "train" /\ iters = 0
    /\ Cardinality({f \in dir : f.prefix = ""}) >= 2
    /\ resumed # {}
    /\ step_num > 0
    /\ \E f \in dir : f \notin resumed /\ f.meta # {} /\ f.meta # OnlyElement(resumed).meta

\* C10: resume covers every trainable entity: without an adapter and in the
\* autoencoder trainer a checkpoint found at start is loaded and its metadata
\* step becomes step_num and start_step.
C10_ResumeEveryEntity ==
    ((IsVAE \/ (IsSD /\ ~cfg.network)) /\ pc \in {"optimizer", "vae_sample"}
        /\ found # {} /\ Latest(found).meta # {}) =>
        /\ resumed = {Latest(found)}
        /\ step_num = OnlyElement(Latest(found).meta)
        /\ start_step = OnlyElement(Latest(found).meta)

\* C11: data-source cycling in both trainers: the batch request that follows
\* the last batch of the data source gets the first batch again, so the batch
\* of every iteration is the iteration number modulo the number of batches,
\* and a run whose step budget exceeds the number of batches neither stops
\* nor fails once the data source has been exhausted with budget left.
C11_DataSourceCycling ==
    /\ (IsSD /\ cfg.dl_len > 0 /\ pc = "gate_sample")
          => batch = {iters % cfg.dl_len}
    /\ (IsVAE /\ pc = "vae_gate_sample") => batch = {iters % cfg.dl_len}
    /\ (IsVAE /\ cfg.epochs = {} /\ cfg.steps > cfg.dl_len
              /\ iters >= cfg.dl_len /\ iters < cfg.steps)
          => pc \notin {"final_save", "done", "crashed"}

\* C12: autoencoder step budget: with no epoch limit, a run that reaches its
\* end has performed exactly max_steps gradient steps, whatever the number of
\* batches of the data source.
C12_StepBudget ==
    (IsVAE /\ cfg.epochs = {} /\ pc = "done") => iters = cfg.steps

\* C13: atomic save of the autoencoder trainer: a path that holds a valid
\* checkpoint holds a valid checkpoint after every step, also when the process
\* dies inside a save to that path.
C13_AtomicSave ==
    [][IsVAE => \A f \in dir : f.valid
                  => \E g \in dir' : SameName(f, g) /\ g.valid]_vars

\* C14: best-effort pruning: a deletion that fails inside clean_up_saves does
\* not end the run.
C14_BestEffortPruning ==
    (IsSD /\ lastPrune.failed /\ runs = 1) => pc # "crashed"

\* C15: configuration errors of the autoencoder trainer: with sample_every set
\* and no sample_sources, or with neither epochs nor max_steps, the constructor
\* raises: run() never starts, the save directory is not created, and no
\* checkpoint lookup, step, sample or save happens.
C15_ConfigurationErrors ==
    (/\ IsVAE
     /\ \/ cfg.sample_every # 0 /\ ~cfg.sample_sources
        \/ cfg.epochs = {} /\ ~cfg.has_max_steps)
    => /\ pc \in {"new", "config_error"}
       /\ root_exists = (dir # {})
       /\ dir \in InitialDirs
       /\ events = << >>
       /\ iters = 0
       /\ found = {}
       /\ resumed = {}

C15_Witness ==
    /\ IsVAE
    /\ pc = "config_error"
    /\ cfg.sample_every # 0 /\ ~cfg.sample_sources
    /\ cfg.has_max_steps
    /\ ~root_exists

LoopStarted ==
    pc \in {"train", "gate_sample", "gate_save", "gate_log", "advance",
            "final_sample", "final_save", "done", "vae_train", "vae_gate_sample",
            "vae_gate_save", "vae_gate_log", "vae_advance", "epoch_end"}

\* C18: monotonic counter in both trainers: inside one process step_num never
\* decreases, and start_step does not change once the loop has started.
C18_MonotonicCounter ==
    [][runs' = runs
         => /\ step_num' >= step_num
            /\ LoopStarted => start_step' = start_step]_vars

C18_Witness ==
    /\ IsSD
    /\ resumed # {}
    /\ start_step > 0
    /\ step_num > start_step

PhaseRank(p) ==
    CASE p = "load" -> 1
      [] p = "params" -> 2
      [] p = "optimizer" -> 3
      [] p = "warmup" -> 4
      [] p = "loop" -> 5
      [] p = "final_sample" -> 6
      [] p = "final_save" -> 7
      [] p = "release" -> 8

InHook == pc \in {"gate_sample", "gate_save", "gate_log", "advance"}

\* C19: phase order of the diffusion trainer: model load, parameter selection
\* (with the resume inside it), optimizer, warm-up samples, step loop, final
\* sample, final save, release are entered in this order and at most once
\* each; a run that ends has entered all of them but possibly the loop; the
\* training hook runs only after the warm-up samples and before the final
\* save, and the first sample precedes the baseline sample.
C19_PhaseOrder ==
    IsSD =>
      /\ \A i, j \in 1..Len(phases) :
            i < j => PhaseRank(phases[i]) < PhaseRank(phases[j])
      /\ pc = "done"
           => SelectSeq(phases, LAMBDA p : p # "loop")
              = <<"load", "params", "optimizer", "warmup",
                  "final_sample", "final_save", "release">>
      /\ resumed # {} => "params" \in Range(phases)
      /\ InHook
           => /\ "warmup" \in Range(phases)
              /\ phases[Len(phases)] = "loop"
              /\ cfg.first_sample
                   => Len(events) > 0 /\ events[1] = Event("first_sample", {0})
              /\ ~cfg.skip_first_sample
                   => \E i \in 1..Min(2, Len(events)) : events[i] = Event("sample", {0})

C19_Witness ==
    /\ IsSD
    /\ pc = "done"
    /\ cfg.first_sample
    /\ ~cfg.skip_first_sample
    /\ "loop" \in Range(phases)
    /\ resumed # {}

\* C20: termination of the diffusion trainer: a run that has ended has ended
\* normally, after exactly max(0, steps - start_step) iterations.
C20_Termination ==
    (IsSD /\ pc \in {"done", "crashed"} /\ error # "ResumeError")
    => /\ pc = "done"
       /\ iters = Max(0, cfg.steps - start_step)

\* C16: critic warm-up: get_critic_loss returns exactly 0 without evaluating
\* the critic while the step counter is below the critic's start_step; inside
\* the warm-up window the loss is the negated critic mean scaled by
\* (step - start_step) / warmup_steps; after the window it is unscaled; the
\* scale lies in [0, 1] and no division by zero happens, warmup_steps = 0
\* included.
C16_CriticWarmup ==
    pure.fn = "critic_out" =>
      LET s == pure.in.step_num
          c == pure.in.start_step
          w == pure.in.warmup_steps
          m == pure.in.mean
          out == pure.out
      IN  /\ out.den # 0
          /\ out.scale.den > 0
          /\ 0 <= out.scale.num /\ out.scale.num <= out.scale.den
          /\ s < c => ~out.evaluated /\ out.num = 0
          /\ s >= c => out.evaluated
          /\ (s >= c /\ s < c + w) => out.num * w = (0 - m) * (s - c) * out.den
          /\ s >= c + w => out.num = (0 - m) * out.den

C16_Witness ==
    /\ pure.fn = "critic_out"
    /\ pure.in.warmup_steps = 0
    /\ pure.in.step_num = pure.in.start_step
    /\ pure.out.evaluated

RECURSIVE WeightedSum(_, _)
WeightedSum(T, in) ==
    IF T = {} THEN 0
    ELSE LET t == CHOOSE x \in T : TRUE
         IN  in.value[t] * in.weight[t] + WeightedSum(T \ {t}, in)

\* C17: loss composition: a term whose weight is 0 contributes exactly 0 and
\* its computation is not executed; the total is the sum of value * weight
\* over the terms of strictly positive weight, plus the critic's generator
\* loss times critic_weight when the critic is in use.
C17_LossComposition ==
    pure.fn = "loss_out" =>
      LET in == pure.in
          out == pure.out
      IN  /\ \A t \in Terms :
                in.weight[t] = 0 => out.term[t] = 0 /\ t \notin out.executed
          /\ out.loss = WeightedSum({t \in Terms : in.weight[t] > 0}, in)
                        + (IF in.use_critic THEN in.critic_gen * in.critic_weight
                           ELSE 0)

C17_Witness ==
    /\ pure.fn = "loss_out"
    /\ pure.in.weight["style"] = 0
    /\ pure.in.weight["mse"] > 0
    /\ pure.in.use_critic
    /\ pure.in.critic_weight > 0

\* C21: a corrupt checkpoint on resume is fatal: when the latest checkpoint
\* file present at start cannot be read, the run has ended with the load error
\* before any step, sample or save.
C21_CorruptCheckpointFatal ==
    (found # {} /\ ~Latest(found).valid)
    => /\ pc = "crashed"
       /\ error = "ResumeError"
       /\ iters = 0
       /\ events = << >>

\* C22: the critic update applies its gradients: every optimizer step of
\* Critic.step is made with the gradients of that iteration's backward pass.
C22_CriticAppliesGradients ==
    (IsVAE /\ cfg.use_critic /\ pc = "vae_gate_sample")
    => /\ critic.opt_steps = cfg.num_critic_per_gen
       /\ critic.applied = critic.opt_steps

OpNames == [i \in 1..Len(ops) |-> ops[i].op]
IsCriticOp(name) ==
    name \in {"critic.zero_grad", "critic.backward", "critic.step", "critic.scheduler"}

\* C23: nested critic ordering: in every generator step with the critic
\* enabled, exactly num_critic_per_gen critic optimizer steps and as many
\* critic scheduler steps, each after a critic backward pass, come before the
\* one evaluation of get_critic_loss, which comes before the generator's
\* backward pass and optimizer step; no critic update comes after it.
C23_NestedCriticOrdering ==
    (IsVAE /\ cfg.use_critic /\ ops # << >>)
    => LET names == OpNames
           Count(name, k) == Cardinality({i \in 1..k : names[i] = name})
       IN  \E k \in 1..Len(names) :
             /\ names[k] = "get_critic_loss"
             /\ Count("get_critic_loss", Len(names)) = 1
             /\ Count("critic.step", k) = cfg.num_critic_per_gen
             /\ Count("critic.scheduler", k) = cfg.num_critic_per_gen
             /\ Count("critic.backward", k) = cfg.num_critic_per_gen
             /\ \A i \in 1..k :
                   names[i] = "critic.step"
                   => /\ names[i + 1] = "critic.scheduler"
                      /\ \E j \in 1..(i - 1) :
                            /\ names[j] = "critic.backward"
                            /\ Count("critic.step", j) = Count("critic.step", i) - 1
             /\ \A i \in (k + 1)..Len(names) : ~IsCriticOp(names[i])
             /\ \E i, j \in (k + 1)..Len(names) :
                   i < j /\ names[i] = "backward" /\ names[j] = "step"
             /\ Count("step", Len(names)) = 1
             /\ critic.opt_steps = cfg.num_critic_per_gen
             /\ critic.sched_steps = cfg.num_critic_per_gen

C23_Witness ==
    /\ IsVAE
    /\ cfg.use_critic
    /\ cfg.num_critic_per_gen = 2
    /\ iters >= 1
    /\ pc = "vae_advance"

IterationRank(name) ==
    CASE name = "pull" -> 1
      [] name = "step" -> 2
      [] name = "sample" -> 3
      [] name = "save" -> 4
      [] name = "log" -> 5
      [] name = "advance" -> 6

IterationOps ==
    SelectSeq(OpNames, LAMBDA n : n \in {"pull", "step", "sample", "save", "log", "advance"})

LoadedTrained ==
    IF resumed # {} /\ (IsVAE \/ cfg.network) THEN OnlyElement(resumed).trained ELSE 0

\* C24: order inside one iteration, in both trainers: batch pull, gradient
\* step, gated sample, gated save, gated log, step-counter advance, each at
\* most once and in this order, the pull and the gradient step first; the
\* gates that fired are the ones that ran; all of them see the same value of
\* the step counter; a checkpoint saved in the iteration holds the weights
\* after the iteration's gradient step.
C24_IterationOrder ==
    ops # << >> =>
      LET names == OpNames
          its == IterationOps
          last == names[Len(names)]
      IN  /\ \A i \in 1..(Len(its) - 1) :
                IterationRank(its[i]) < IterationRank(its[i + 1])
          /\ SubSeq(its, 1, 2) = <<"pull", "step">>
          /\ fired = {n \in {"sample", "save", "log"} : \E i \in 1..Len(its) : its[i] = n}
          /\ \A i \in 1..Len(ops) : ops[i].step = ops[1].step
          /\ last = "advance" => step_num >= ops[1].step
          /\ trained = LoadedTrained + iters + (IF last = "advance" THEN 0 ELSE 1)
          /\ last = "save"
               => \E f \in dir :
                    /\ f.prefix = "" /\ f.suffix = {ops[1].step}
                    /\ f.trained = trained

C24_Witness ==
    /\ IsSD
    /\ IterationOps = <<"pull", "step", "sample", "save", "log", "advance">>
    /\ cfg.network
    /\ resumed # {}

\* C25: retention in the autoencoder trainer: the number of intermediate
\* checkpoint files of the job, and of its CRITIC_ files, never exceeds the
\* configured maximum.
C25_VAERetention ==
    IsVAE =>
      /\ Cardinality({f \in dir : f.prefix = "" /\ f.suffix # {}})
            <= cfg.max_step_saves_to_keep
      /\ Cardinality({f \in dir : f.prefix = "CRITIC_" /\ f.suffix # {}})
            <= cfg.max_step_saves_to_keep

\* C26: epoch aggregate: the average emitted at the end of an epoch is taken
\* over the per-step values of exactly the steps of that epoch.
C26_EpochAggregate ==
    (IsVAE /\ emitted # {}) => \A e \in emitted : e.over = e.steps

\* C27: epoch counter in metadata: every checkpoint the autoencoder trainer
\* writes records as epoch the number of epochs completed before the save.
C27_EpochInMetadata ==
    IsVAE => \A f \in dir : (f.counter # {} /\ f.valid) => f.epoch = f.in_epoch

\* C28: adapter multiplier around save and load: a save() of the diffusion
\* trainer writes the adapter at multiplier 1.0 and leaves the multiplier,
\* step_num and start_step as they were; after a resume load the multiplier
\* is 1.0.
C28_AdapterMultiplier ==
    [][IsSD =>
         /\ (runs' = runs /\ dir' # dir)
              => /\ multiplier' = multiplier
                 /\ step_num' = step_num
                 /\ start_step' = start_step
                 /\ \E f \in dir' :
                      /\ f.ctime = clock
                      /\ f.multiplier = IF cfg.network THEN {1} ELSE {}
         /\ (cfg.network /\ resumed' # {} /\ pc' = "optimizer")
              => multiplier' = {1}]_vars

C28_Witness ==
    /\ IsSD
    /\ cfg.network
    /\ multiplier = {2}
    /\ pc = "gate_log"
    /\ "save" \in fired
    /\ resumed # {}

\* C29: kill-and-resume keeps the step budget: a diffusion run with an adapter
\* that resumed from an intermediate checkpoint of an earlier run and reached
\* its end has made steps - (gradient steps in the checkpoint) iterations.
C29_ResumeStepBudget ==
    (IsSD /\ cfg.network /\ pc = "done")
    => \A f \in resumed :
         (f.suffix # {} /\ f.counter # {}) => f.trained + iters = cfg.steps

\* C30: the end-of-epoch aggregation never fails: no run with a writer ends
\* with a division by an empty accumulator.
C30_EpochEndNeverFails ==
    (IsVAE /\ cfg.writer) => error # "ZeroDivisionError"

\* C31: epoch-only budget: an autoencoder trainer configured with epochs and
\* no max_steps passes the constructor's validation, never ends with an
\* exception, and when its run is over it has trained epochs times
\* len(data_loader) steps and written its final checkpoint (the sampling
\* fields being consistent: sample_sources given whenever sample_every is).
C31_EpochOnlyBudget ==
    (/\ IsVAE /\ cfg.epochs # {} /\ ~cfg.has_max_steps
     /\ (cfg.sample_every = 0 \/ cfg.sample_sources))
    => /\ pc \notin {"config_error", "crashed"}
       /\ pc = "done" => /\ iters = OnlyElement(cfg.epochs) * cfg.dl_len
                         /\ FinalExists

\* C32: sampling disabled: an autoencoder trainer configured with neither
\* sample_every nor sample_sources (and a step budget) passes the
\* constructor's validation, makes no sample pass at any point of its run,
\* raises nothing while running (a checkpoint it cannot read aside), and has
\* written its final checkpoint when the run is over.
C32_SamplingDisabled ==
    (IsVAE /\ cfg.sample_every = 0 /\ ~cfg.sample_sources /\ cfg.has_max_steps)
    => /\ pc # "config_error"
       /\ \A i \in 1..Len(events) : events[i].kind # "sample"
       /\ pc = "crashed" => error = "ResumeError"
       /\ pc = "done" => FinalExists

\* the checkpoints of the autoencoder and of the critic that one call of
\* save() wrote: same step suffix, same step counter, consecutive writes
SameSaveEvent(f, g) ==
    /\ f.prefix = "" /\ g.prefix = "CRITIC_"
    /\ f.suffix = g.suffix
    /\ f.counter = g.counter
    /\ g.ctime = f.ctime + 1

\* C33: main / critic checkpoint pairing: with the critic enabled, every save
\* of the autoencoder is followed by a critic save with the same step suffix,
\* and a process that resumed from a checkpoint of this job, whatever the
\* point at which the previous process was killed, has loaded an autoencoder
\* checkpoint and a critic checkpoint that come from the same save event.
C33_CheckpointPairing ==
    (IsVAE /\ cfg.use_critic)
    => /\ (ops # << >> /\ ops[Len(ops)].op = "save")
            => \E f, g \in dir :
                  /\ f.suffix = {ops[1].step} /\ f.ctime = clock - 2
                  /\ SameSaveEvent(f, g)
       /\ (/\ pc \in {"vae_sample", "vae_train", "final_save", "done"}
           /\ resumed # {}
           /\ OnlyElement(resumed).counter # {})
            => /\ critic_resumed # {}
               /\ SameSaveEvent(OnlyElement(resumed), OnlyElement(critic_resumed))

====
